---- MODULE Spec2Model ----
(***************************************************************************)
(* MarioDemo (src/marioOS1.0.py, lines 1034-1308): the fixed-step          *)
(* platformer of the desktop shell.  The state is the fields reset_level   *)
(* assigns; the operations are the key handlers _on_key / _on_key_up and   *)
(* the timer callback _tick, whose physics step _update_physics is         *)
(* translated statement by statement.                                      *)
(*                                                                         *)
(* Numbers.  The code computes with Python floats.  Here every length and  *)
(* velocity is an integer count of 1/S pixel (S = 5): on that grid the     *)
(* constants 0.8, 4.0, 12.0, 10.0, 8.0, 1.0 and all level coordinates are  *)
(* exact, so gravity, clamps, collision snaps and the enemy walk are       *)
(* computed exactly.  The one inexact operation is the friction product    *)
(* vx * 0.9, which is rounded toward zero to the grid.                     *)
(***************************************************************************)
EXTENDS Integers, Sequences, FiniteSets, TLC

VARIABLES
    player,      \* self.player: x, y, w, h, vx, vy, on_ground
    scroll_x,    \* self.scroll_x
    platforms,   \* self.platforms: sequence of rectangles <<x, y, w, h>>
    coins,       \* self.coins: sequence of [x, y, r, alive]
    enemies,     \* self.enemies: sequence of [x, y, w, h, vx, alive]
    goal,        \* self.goal
    score,       \* self.score
    win,         \* self.win
    keys,        \* self.keys: the held flags of left, right, jump
    ticks,       \* number of _tick callbacks run since the last reset_level
    last,        \* what the last _tick or reset did (see NoEvent)
    window,      \* the Toplevel exists: destroy() has not been called
    pending      \* number of _tick callbacks scheduled with after() and not yet run

vars == <<player, scroll_x, platforms, coins, enemies, goal, score, win, keys, ticks, last, window, pending>>

---------------------------------------------------------------------------
(* Units and program constants *)

S == 5                      \* grid units per pixel
Px(n) == n * S

W == Px(800)                \* self.W
LEVEL_W == Px(1600)         \* the literal 1600 of the camera clamp and of the ground loop
Tenths(n) == (n * S) \div 10
ACCEL == Tenths(8)          \* 0.8 px per tick of input acceleration
GRAVITY == Tenths(8)        \* 0.8 px per tick
MAX_VX == Px(4)
MAX_VY == Px(12)
JUMP_VY == 0 - Px(10)
BOUNCE_VY == 0 - Px(8)
STOMP_TOL == Px(6)
COIN_SCORE == 100
STOMP_SCORE == 200

KeyNames == {"left", "right", "jump"}

---------------------------------------------------------------------------
(* Helpers *)

Min(a, b) == IF a <= b THEN a ELSE b
Max(a, b) == IF a >= b THEN a ELSE b
Abs(a) == IF a >= 0 THEN a ELSE 0 - a

\* clamp(v, lo, hi) = max(lo, min(hi, v))
clamp(v, lo, hi) == Max(lo, Min(hi, v))

\* v * 0.9, rounded toward zero to the grid
Friction(v) == IF v >= 0 THEN (v * 9) \div 10 ELSE 0 - ((((0 - v) * 9)) \div 10)

\* a rectangle is <<x1, y1, x2, y2>>
\* rectangles that only touch count as overlapping
_rects_overlap_Touching(a, b) ==
    ~(a[3] < b[1] \/ a[1] > b[3] \/ a[4] < b[2] \/ a[2] > b[4])

_rects_overlap(a, b) ==
    ~(a[3] <= b[1] \/ a[1] >= b[3] \/ a[4] <= b[2] \/ a[2] >= b[4])

\* rect <<x1,y1,x2,y2>> against circle <<cx, cy, r>>.  The squares are only
\* formed when neither distance exceeds r (otherwise the sum exceeds r * r
\* anyway), which keeps them small however far away the rectangle is.
_rect_circle_overlap(rect, circle) ==
    LET nearest_x == clamp(circle[1], rect[1], rect[3])
        nearest_y == clamp(circle[2], rect[2], rect[4])
        dx == circle[1] - nearest_x
        dy == circle[2] - nearest_y
    IN  /\ Abs(dx) <= circle[3]
        /\ Abs(dy) <= circle[3]
        /\ (dx * dx + dy * dy) <= circle[3] * circle[3]

PlatRect(pl) == <<pl[1], pl[2], pl[1] + pl[3], pl[2] + pl[4]>>
BodyRect(b) == <<b.x, b.y, b.x + b.w, b.y + b.h>>

---------------------------------------------------------------------------
(* reset_level: the generated level and the fresh state *)

GROUND_Y == Px(360)

GroundBlocks == [i \in 1..20 |-> <<Px((i - 1) * 80), GROUND_Y, Px(80), Px(120)>>]

FloatingPlatforms ==
    << <<Px(220), Px(300), Px(80), Px(16)>>, <<Px(320), Px(260), Px(80), Px(16)>>,
       <<Px(420), Px(220), Px(80), Px(16)>>, <<Px(600), Px(300), Px(80), Px(16)>>,
       <<Px(700), Px(260), Px(80), Px(16)>>, <<Px(820), Px(220), Px(80), Px(16)>>,
       <<Px(980), Px(280), Px(80), Px(16)>>, <<Px(1080), Px(240), Px(80), Px(16)>>,
       <<Px(1180), Px(200), Px(80), Px(16)>> >>

GenPlatforms == GroundBlocks \o FloatingPlatforms

CoinXs == <<260, 360, 460, 620, 720, 840, 1000, 1100, 1200>>

GenCoins == [i \in 1..Len(CoinXs) |-> [x |-> Px(CoinXs[i]), y |-> Px(180), r |-> Px(8), alive |-> TRUE]]

GenEnemies ==
    << [x |-> Px(520), y |-> GROUND_Y - Px(20), w |-> Px(28), h |-> Px(20),
        vx |-> 0 - Px(1), alive |-> TRUE] >>

GenGoal == [x |-> Px(1400), y |-> Px(280), w |-> Px(12), h |-> Px(120)]

FreshPlayer ==
    [x |-> Px(80), y |-> Px(320), w |-> Px(24), h |-> Px(32),
     vx |-> 0, vy |-> 0, on_ground |-> FALSE]

FreshKeys == [left |-> FALSE, right |-> FALSE, jump |-> FALSE]

\* reset_level without "self.score = 0"
reset_level_KeepsScore ==
    [keys |-> FreshKeys, scroll_x |-> 0, player |-> FreshPlayer,
     platforms |-> GenPlatforms, coins |-> GenCoins, enemies |-> GenEnemies,
     goal |-> GenGoal, score |-> score, win |-> FALSE]

\* reset_level without "self.enemies = []": the new enemy is appended to the old ones
reset_level_KeepsEnemies ==
    [keys |-> FreshKeys, scroll_x |-> 0, player |-> FreshPlayer,
     platforms |-> GenPlatforms, coins |-> GenCoins, enemies |-> enemies \o GenEnemies,
     goal |-> GenGoal, score |-> 0, win |-> FALSE]

\* the fields reset_level assigns, as one record
reset_level ==
    [keys |-> FreshKeys, scroll_x |-> 0, player |-> FreshPlayer,
     platforms |-> GenPlatforms, coins |-> GenCoins, enemies |-> GenEnemies,
     goal |-> GenGoal, score |-> 0, win |-> FALSE]

---------------------------------------------------------------------------
(* _move_and_collide *)

\* one iteration of the loop over the platforms; pr is the rectangle taken
\* before the loop and is not refreshed by a resolution
\* a landing that keeps the fall speed
ResolveOne_KeepsVy(p, pr, dx, dy, pl) ==
    LET r == PlatRect(pl)
        overlap_x == Min(pr[3], r[3]) - Max(pr[1], r[1])
        overlap_y == Min(pr[4], r[4]) - Max(pr[2], r[2])
    IN  IF ~_rects_overlap(pr, r) THEN p
        ELSE IF Abs(overlap_x) < Abs(overlap_y)
             THEN [p EXCEPT !.x = IF dx > 0 THEN @ - overlap_x ELSE @ + overlap_x,
                            !.vx = 0]
             ELSE IF dy > 0
                  THEN [p EXCEPT !.y = @ - overlap_y, !.on_ground = TRUE]
                  ELSE [p EXCEPT !.y = @ + overlap_y, !.vy = 0]

ResolveOne(p, pr, dx, dy, pl) ==
    LET r == PlatRect(pl)
        overlap_x == Min(pr[3], r[3]) - Max(pr[1], r[1])
        overlap_y == Min(pr[4], r[4]) - Max(pr[2], r[2])
    IN  IF ~_rects_overlap(pr, r) THEN p
        ELSE IF Abs(overlap_x) < Abs(overlap_y)
             THEN [p EXCEPT !.x = IF dx > 0 THEN @ - overlap_x ELSE @ + overlap_x,
                            !.vx = 0]
             ELSE IF dy > 0
                  THEN [p EXCEPT !.y = @ - overlap_y, !.vy = 0, !.on_ground = TRUE]
                  ELSE [p EXCEPT !.y = @ + overlap_y, !.vy = 0]

RECURSIVE ResolveFrom(_, _, _, _, _, _)
ResolveFrom(p, pr, dx, dy, plats, i) ==
    IF i > Len(plats) THEN p
    ELSE ResolveFrom(ResolveOne(p, pr, dx, dy, plats[i]), pr, dx, dy, plats, i + 1)

\* _move_and_collide without "p['on_ground'] = False"
_move_and_collide_KeepsGrounded(p, dx, dy, plats) ==
    LET moved == [p EXCEPT !.x = @ + dx, !.y = @ + dy]
    IN  ResolveFrom(moved, BodyRect(moved), dx, dy, plats, 1)

_move_and_collide(p, dx, dy, plats) ==
    LET moved == [p EXCEPT !.x = @ + dx, !.y = @ + dy, !.on_ground = FALSE]
    IN  ResolveFrom(moved, BodyRect(moved), dx, dy, plats, 1)

---------------------------------------------------------------------------
(* _enemy_hits_edge *)

\* the wall loop: some platform overlaps the projected rectangle and the
\* enemy is not standing on top of it
HitsWall(e, er, plats) ==
    \E i \in 1..Len(plats) :
        /\ _rects_overlap(er, PlatRect(plats[i]))
        /\ ~(e.y + e.h <= plats[i][2] + Px(2))

\* the void loop testing the enemy's left edge instead of its centre
Below_LeftEdge(e, next_x, plats) ==
    \E i \in 1..Len(plats) :
        /\ next_x >= plats[i][1]
        /\ next_x <= plats[i][1] + plats[i][3]
        /\ e.y + e.h + Px(2) >= plats[i][2]
        /\ e.y + e.h <= plats[i][2] + Px(6)

\* the void loop testing the enemy's right edge instead of its centre
Below_RightEdge(e, next_x, plats) ==
    \E i \in 1..Len(plats) :
        /\ next_x + e.w >= plats[i][1]
        /\ next_x + e.w <= plats[i][1] + plats[i][3]
        /\ e.y + e.h + Px(2) >= plats[i][2]
        /\ e.y + e.h <= plats[i][2] + Px(6)

\* the void loop: some platform lies under the projected horizontal centre.
\* e["w"]/2 is compared on the doubled scale to stay in the integers.
Below(e, next_x, plats) ==
    \E i \in 1..Len(plats) :
        /\ 2 * next_x + e.w >= 2 * plats[i][1]
        /\ 2 * next_x + e.w <= 2 * (plats[i][1] + plats[i][3])
        /\ e.y + e.h + Px(2) >= plats[i][2]
        /\ e.y + e.h <= plats[i][2] + Px(6)

_enemy_hits_edge(e, plats) ==
    LET next_x == e.x + e.vx
        er == <<next_x, e.y, next_x + e.w, e.y + e.h>>
    IN  HitsWall(e, er, plats) \/ ~Below(e, next_x, plats)

---------------------------------------------------------------------------
(* _update_physics, in the order of its statements *)

\* movement input and friction without the clamp
StepVx_NoClamp(vx, k) ==
    Friction(vx + (IF k.left THEN 0 - ACCEL ELSE 0) + (IF k.right THEN ACCEL ELSE 0))

\* movement input, friction, clamp
StepVx(vx, k) ==
    LET ax == (IF k.left THEN 0 - ACCEL ELSE 0) + (IF k.right THEN ACCEL ELSE 0)
    IN  clamp(Friction(vx + ax), 0 - MAX_VX, MAX_VX)

\* gravity, clamp
StepVy(vy) == clamp(vy + GRAVITY, 0 - MAX_VY, MAX_VY)

\* the horizontal pass, then the vertical pass with the vy the first left
MovePlayer(p, k, plats) ==
    LET p1 == [p EXCEPT !.vx = StepVx(p.vx, k), !.vy = StepVy(p.vy)]
        p2 == _move_and_collide(p1, p1.vx, 0, plats)
    IN  _move_and_collide(p2, 0, p2.vy, plats)

\* a jump that does not ask for the grounded flag
JumpTriggers_Airborne(p, k) == k.jump

JumpTriggers(p, k) == k.jump /\ p.on_ground

Jump(p, k) ==
    IF JumpTriggers(p, k) THEN [p EXCEPT !.vy = JUMP_VY, !.on_ground = FALSE] ELSE p

\* scrolling that only ever advances
Camera_NoRetreat(px, sx) ==
    clamp(IF px - sx > (W * 6) \div 10 THEN px - (W * 6) \div 10 ELSE sx, 0, LEVEL_W - W)

\* scrolling without the final clamp
Camera_NoClamp(px, sx) ==
    IF px - sx < (W * 3) \div 10 THEN px - (W * 3) \div 10
    ELSE IF px - sx > (W * 6) \div 10 THEN px - (W * 6) \div 10 ELSE sx

\* scrolling: 0.6 W and 0.3 W are 3W/5 and 3W/10
Camera(px, sx) ==
    LET center == px - sx
        s1 == IF center > (W * 6) \div 10 THEN px - (W * 6) \div 10 ELSE sx
        s2 == IF center < (W * 3) \div 10 THEN px - (W * 3) \div 10 ELSE s1
    IN  clamp(s2, 0, LEVEL_W - W)

\* the coin test without "if not c[3]: continue"
Picked_IgnoresAlive(c, pr) == _rect_circle_overlap(pr, <<c.x, c.y, c.r>>)

\* the coin loop without "c[3] = False"
CoinPass_KeepsAlive(cs, pr) == cs

\* the coin loop
Picked(c, pr) == c.alive /\ _rect_circle_overlap(pr, <<c.x, c.y, c.r>>)

CoinPass(cs, pr) == [i \in 1..Len(cs) |-> IF Picked(cs[i], pr) THEN [cs[i] EXCEPT !.alive = FALSE] ELSE cs[i]]

NumPicked(cs, pr) == Cardinality({i \in 1..Len(cs) : Picked(cs[i], pr)})

\* the stomp test without the tolerance of 6
IsStomp_NoTolerance(vy, p, e) == vy > 0 /\ p.y + p.h <= e.y

\* the stomp test of an overlapping enemy
IsStomp(vy, p, e) == vy > 0 /\ p.y + p.h - STOMP_TOL <= e.y

\* the enemy loop.  acc carries what the loop has changed so far: the
\* enemies, the score, the player's vy, and whether reset_level was called
\* (after which the code returns).
\* the enemy step deciding the reversal before it moves, so that a reversal
\* already moves the enemy in the tick of the decision
EnemyStep_FlipFirst(e, plats) ==
    LET v == IF _enemy_hits_edge(e, plats) THEN 0 - e.vx ELSE e.vx
    IN  [e EXCEPT !.x = @ + v, !.vx = v]

EnemyStep(e, plats) ==
    LET e1 == [e EXCEPT !.x = @ + e.vx]
    IN  IF _enemy_hits_edge(e1, plats) THEN [e1 EXCEPT !.vx = 0 - @] ELSE e1

\* the enemy loop without "if not e['alive']: continue"
RECURSIVE EnemyLoop_NoSkip(_, _, _, _, _)
EnemyLoop_NoSkip(acc, p, pr, plats, i) ==
    IF acc.died \/ i > Len(acc.enemies) THEN acc
    ELSE LET e == EnemyStep(acc.enemies[i], plats)
             moved == [acc EXCEPT !.enemies[i] = e]
         IN  IF ~_rects_overlap(pr, BodyRect(e))
             THEN EnemyLoop_NoSkip(moved, p, pr, plats, i + 1)
             ELSE IF IsStomp(acc.vy, p, e)
                  THEN EnemyLoop_NoSkip([moved EXCEPT !.enemies[i].alive = FALSE,
                                                      !.score = @ + STOMP_SCORE,
                                                      !.vy = BOUNCE_VY,
                                                      !.stomped = TRUE],
                                        p, pr, plats, i + 1)
                  ELSE [moved EXCEPT !.died = TRUE]

RECURSIVE EnemyLoop(_, _, _, _, _)
EnemyLoop(acc, p, pr, plats, i) ==
    IF acc.died \/ i > Len(acc.enemies) THEN acc
    ELSE IF ~acc.enemies[i].alive THEN EnemyLoop(acc, p, pr, plats, i + 1)
    ELSE LET e == EnemyStep(acc.enemies[i], plats)
             moved == [acc EXCEPT !.enemies[i] = e]
         IN  IF ~_rects_overlap(pr, BodyRect(e))
             THEN EnemyLoop(moved, p, pr, plats, i + 1)
             ELSE IF IsStomp(acc.vy, p, e)
                  THEN EnemyLoop([moved EXCEPT !.enemies[i].alive = FALSE,
                                               !.score = @ + STOMP_SCORE,
                                               !.vy = BOUNCE_VY,
                                               !.stomped = TRUE],
                                 p, pr, plats, i + 1)
                  ELSE [moved EXCEPT !.died = TRUE]

GoalRect(g) == <<g.x, g.y - g.h, g.x + g.w, g.y>>

\* the goal check assigning the overlap test to win
GoalCheck_NotSticky(w, pr, g) == _rects_overlap(pr, GoalRect(g))

\* the goal check: win is only ever set, never cleared
GoalCheck(w, pr, g) == IF _rects_overlap(pr, GoalRect(g)) THEN TRUE ELSE w

\* the step with the interaction pass (coins, enemies, goal) reading the
\* player's rectangle from before the movement of the tick
PhysicsGiven_InteractsFirst(w) ==
    LET p1 == Jump(MovePlayer(player, keys, platforms), keys)
        sx == Camera(p1.x, scroll_x)
        pr == BodyRect(player)
        cs == CoinPass(coins, pr)
        acc == EnemyLoop([enemies |-> enemies, score |-> score + COIN_SCORE * NumPicked(coins, pr),
                          vy |-> p1.vy, died |-> FALSE, stomped |-> FALSE],
                         p1, pr, platforms, 1)
    IN  IF acc.died
        THEN reset_level @@ [died |-> TRUE, stomped |-> acc.stomped, picked |-> NumPicked(coins, pr)]
        ELSE [keys |-> keys, scroll_x |-> sx, player |-> [p1 EXCEPT !.vy = acc.vy],
              platforms |-> platforms, coins |-> cs, enemies |-> acc.enemies,
              goal |-> goal, score |-> acc.score,
              win |-> GoalCheck(w, pr, goal),
              died |-> FALSE, stomped |-> acc.stomped, picked |-> NumPicked(coins, pr)]

\* the whole step, for a given value w of self.win: the record of the
\* fields after _update_physics
PhysicsGiven(w) ==
    LET p1 == Jump(MovePlayer(player, keys, platforms), keys)
        sx == Camera(p1.x, scroll_x)
        pr == BodyRect(p1)
        cs == CoinPass(coins, pr)
        acc == EnemyLoop([enemies |-> enemies, score |-> score + COIN_SCORE * NumPicked(coins, pr),
                          vy |-> p1.vy, died |-> FALSE, stomped |-> FALSE],
                         p1, pr, platforms, 1)
    IN  IF acc.died
        THEN reset_level @@ [died |-> TRUE, stomped |-> acc.stomped, picked |-> NumPicked(coins, pr)]
        ELSE [keys |-> keys, scroll_x |-> sx, player |-> [p1 EXCEPT !.vy = acc.vy],
              platforms |-> platforms, coins |-> cs, enemies |-> acc.enemies,
              goal |-> goal, score |-> acc.score,
              win |-> GoalCheck(w, pr, goal),
              died |-> FALSE, stomped |-> acc.stomped, picked |-> NumPicked(coins, pr)]

\* a step that returns at once when the level is won
_update_physics_HaltsOnWin ==
    IF win
    THEN [keys |-> keys, scroll_x |-> scroll_x, player |-> player, platforms |-> platforms,
          coins |-> coins, enemies |-> enemies, goal |-> goal, score |-> score, win |-> win,
          died |-> FALSE, stomped |-> FALSE, picked |-> 0]
    ELSE PhysicsGiven(win)

_update_physics == PhysicsGiven(win)

---------------------------------------------------------------------------
(* The handlers *)

\* last: op is "init", "reset" (the r key) or "tick"; for a tick, whether it
\* ended in the death reset, whether it stomped, and how many coins it took
NoEvent == [op |-> "init", died |-> FALSE, stomped |-> FALSE, picked |-> 0]

Install(st) ==
    /\ player' = st.player
    /\ scroll_x' = st.scroll_x
    /\ platforms' = st.platforms
    /\ coins' = st.coins
    /\ enemies' = st.enemies
    /\ goal' = st.goal
    /\ score' = st.score
    /\ win' = st.win
    /\ keys' = st.keys

\* __init__: reset_level, then the first _tick is scheduled
Init ==
    /\ player = FreshPlayer
    /\ scroll_x = 0
    /\ platforms = GenPlatforms
    /\ coins = GenCoins
    /\ enemies = GenEnemies
    /\ goal = GenGoal
    /\ score = 0
    /\ win = FALSE
    /\ keys = FreshKeys
    /\ ticks = 0
    /\ last = NoEvent
    /\ window = TRUE
    /\ pending = 1

\* _on_key with a movement or jump key: the flag is set
KeyPress(k) ==
    /\ window
    /\ ~keys[k]
    /\ keys' = [keys EXCEPT ![k] = TRUE]
    /\ UNCHANGED <<player, scroll_x, platforms, coins, enemies, goal, score, win, ticks, last, window, pending>>

\* _on_key_up
KeyRelease(k) ==
    /\ window
    /\ keys[k]
    /\ keys' = [keys EXCEPT ![k] = FALSE]
    /\ UNCHANGED <<player, scroll_x, platforms, coins, enemies, goal, score, win, ticks, last, window, pending>>

\* _on_key with "r": reset_level
KeyR ==
    /\ window
    /\ Install(reset_level)
    /\ ticks' = 0
    /\ last' = [NoEvent EXCEPT !.op = "reset"]
    /\ UNCHANGED <<window, pending>>

\* destroy() without the deletion of the widget's callbacks: the scheduled
\* _tick stays scheduled
KeyEscape_KeepsTimer ==
    /\ window
    /\ window' = FALSE
    /\ UNCHANGED <<player, scroll_x, platforms, coins, enemies, goal, score, win, keys, ticks, last, pending>>

\* _on_key with "escape": self.destroy().  Destroying the widget deletes the
\* callbacks registered through it, the scheduled _tick among them, and its
\* key bindings; _running is not touched.
KeyEscape ==
    /\ window
    /\ window' = FALSE
    /\ pending' = 0
    /\ UNCHANGED <<player, scroll_x, platforms, coins, enemies, goal, score, win, keys, ticks, last>>

\* self._running: set in __init__ and assigned nowhere else
_running == TRUE

\* a _tick that schedules a second successor
Reschedule_Twice(n) == (n - 1) + 2

\* the callbacks scheduled after a _tick has run: the one that ran is gone,
\* and "self.after(FRAME_MS, self._tick)" adds one unless _tick returned early
Reschedule(n) == (n - 1) + (IF _running THEN 1 ELSE 0)

\* _tick: one physics step; at most `bound` steps are explored per level
TickUpTo(bound) ==
    /\ pending > 0
    /\ ticks < bound
    /\ \E st \in {_update_physics} :
           /\ Install(st)
           /\ ticks' = IF st.died THEN 0 ELSE ticks + 1
           /\ last' = [op |-> "tick", died |-> st.died, stomped |-> st.stomped, picked |-> st.picked]
    /\ pending' = Reschedule(pending)
    /\ UNCHANGED window

---------------------------------------------------------------------------
(* Specifications.  Each one bounds what the player does at the keyboard.  *)

MaxTicks == 8          \* free play: any key may go down or up between two ticks
MaxRunTicks == 100     \* a run to the right: right is held, jump is free

Tick == TickUpTo(MaxTicks)

Next ==
    \/ \E k \in KeyNames : KeyPress(k)
    \/ \E k \in KeyNames : KeyRelease(k)
    \/ KeyR
    \/ KeyEscape
    \/ Tick

Spec == Init /\ [][Next]_vars

RunTick == /\ keys.right
           /\ TickUpTo(MaxRunTicks)

RunNext ==
    \/ KeyPress("right")
    \/ KeyPress("jump")
    \/ KeyRelease("jump")
    \/ KeyR
    \/ RunTick

RunSpec == Init /\ [][RunNext]_vars

\* A recorded play-through, then free play.  Each entry of DemoRuns is
\* <<number of ticks, right held, jump held>>: the player runs right, stomps
\* the enemy (tick 88), waits, climbs the platforms at 600 and 700 to the
\* coin at 720 (tick 178), jumps through the goal (tick 353) and runs on
\* past the right end of the ground.
DemoRuns ==
    << <<69, TRUE, FALSE>>, <<1, TRUE, TRUE>>, <<18, TRUE, FALSE>>, <<14, FALSE, FALSE>>,
       <<7, TRUE, FALSE>>, <<1, TRUE, TRUE>>, <<24, TRUE, FALSE>>, <<1, TRUE, TRUE>>,
       <<17, TRUE, FALSE>>, <<1, TRUE, TRUE>>, <<18, TRUE, FALSE>>, <<1, TRUE, TRUE>>,
       <<172, TRUE, FALSE>>, <<1, TRUE, TRUE>>, <<78, TRUE, FALSE>> >>

RECURSIVE DemoEnd(_)
DemoEnd(i) == IF i = 0 THEN 0 ELSE DemoEnd(i - 1) + DemoRuns[i][1]

DemoLen == DemoEnd(Len(DemoRuns))

\* the keys held during tick t + 1 of the play-through (t < DemoLen)
DemoKeys(t) ==
    LET i == CHOOSE j \in 1..Len(DemoRuns) : DemoEnd(j - 1) <= t /\ t < DemoEnd(j)
    IN  [left |-> FALSE, right |-> DemoRuns[i][2], jump |-> DemoRuns[i][3]]

\* during the play-through the keys follow it; after it any key may change
DemoWants(k, down) == IF ticks >= DemoLen THEN TRUE ELSE DemoKeys(ticks)[k] = down

DemoPress(k) == /\ DemoWants(k, TRUE)
                /\ KeyPress(k)

DemoRelease(k) == /\ DemoWants(k, FALSE)
                  /\ KeyRelease(k)

DemoTick == /\ \A k \in KeyNames : DemoWants(k, keys[k])
            /\ TickUpTo(DemoLen + MaxTicks)

DemoNext ==
    \/ \E k \in KeyNames : DemoPress(k)
    \/ \E k \in KeyNames : DemoRelease(k)
    \/ KeyR
    \/ DemoTick

DemoSpec == Init /\ [][DemoNext]_vars

\* Two more recorded play-throughs, each followed by free play.  An entry is
\* <<number of ticks, left held, right held, jump held>>.
RECURSIVE RunsEnd(_, _)
RunsEnd(runs, i) == IF i = 0 THEN 0 ELSE RunsEnd(runs, i - 1) + runs[i][1]

RunsLen(runs) == RunsEnd(runs, Len(runs))

\* the keys held during tick t + 1 of a recording (t < RunsLen(runs))
RunsKeys(runs, t) ==
    LET i == CHOOSE j \in 1..Len(runs) : RunsEnd(runs, j - 1) <= t /\ t < RunsEnd(runs, j)
    IN  [left |-> runs[i][2], right |-> runs[i][3], jump |-> runs[i][4]]

Follows(runs, k, down) == IF ticks >= RunsLen(runs) THEN TRUE ELSE RunsKeys(runs, ticks)[k] = down

\* The climb: over the platforms at 220 and 320 to the coin at 360, which is
\* taken in tick 85 while the enemy still walks on the ground below.
ClimbRuns ==
    << <<5, FALSE, TRUE, FALSE>>, <<1, FALSE, TRUE, TRUE>>, <<23, FALSE, TRUE, FALSE>>,
       <<1, FALSE, FALSE, FALSE>>, <<1, FALSE, TRUE, TRUE>>, <<1, FALSE, TRUE, FALSE>>,
       <<6, TRUE, FALSE, FALSE>>, <<3, FALSE, FALSE, FALSE>>, <<1, FALSE, TRUE, FALSE>>,
       <<1, FALSE, TRUE, TRUE>>, <<18, FALSE, TRUE, FALSE>>, <<3, FALSE, FALSE, FALSE>>,
       <<1, TRUE, FALSE, FALSE>>, <<1, FALSE, FALSE, FALSE>>, <<1, TRUE, FALSE, FALSE>>,
       <<1, FALSE, TRUE, TRUE>>, <<1, FALSE, TRUE, FALSE>>, <<1, TRUE, FALSE, FALSE>>,
       <<1, FALSE, FALSE, FALSE>>, <<3, FALSE, TRUE, FALSE>>, <<1, TRUE, FALSE, TRUE>>,
       <<9, FALSE, TRUE, FALSE>>, <<1, FALSE, FALSE, FALSE>> >>

ClimbPress(k) == /\ Follows(ClimbRuns, k, TRUE)
                 /\ KeyPress(k)

ClimbRelease(k) == /\ Follows(ClimbRuns, k, FALSE)
                   /\ KeyRelease(k)

ClimbTick == /\ \A k \in KeyNames : Follows(ClimbRuns, k, keys[k])
             /\ TickUpTo(RunsLen(ClimbRuns) + MaxTicks)

ClimbNext ==
    \/ \E k \in KeyNames : ClimbPress(k)
    \/ \E k \in KeyNames : ClimbRelease(k)
    \/ KeyR
    \/ ClimbTick

ClimbSpec == Init /\ [][ClimbNext]_vars

\* The return: the start of the play-through up to the stomp and the wait,
\* 40 ticks to the right (the camera follows from x = 480), then 100 ticks
\* to the left, over which the camera retreats until it is clamped at 0.
ReturnRuns ==
    << <<69, FALSE, TRUE, FALSE>>, <<1, FALSE, TRUE, TRUE>>, <<18, FALSE, TRUE, FALSE>>,
       <<14, FALSE, FALSE, FALSE>>, <<40, FALSE, TRUE, FALSE>>, <<100, TRUE, FALSE, FALSE>> >>

ReturnPress(k) == /\ Follows(ReturnRuns, k, TRUE)
                  /\ KeyPress(k)

ReturnRelease(k) == /\ Follows(ReturnRuns, k, FALSE)
                    /\ KeyRelease(k)

ReturnTick == /\ \A k \in KeyNames : Follows(ReturnRuns, k, keys[k])
              /\ TickUpTo(RunsLen(ReturnRuns) + MaxTicks)

ReturnNext ==
    \/ \E k \in KeyNames : ReturnPress(k)
    \/ \E k \in KeyNames : ReturnRelease(k)
    \/ KeyR
    \/ ReturnTick

ReturnSpec == Init /\ [][ReturnNext]_vars

\* The dive: a climb onto the platform at x = 420, y = 220, a wait there
\* while the enemy walks to the left end of the ground and back, then a
\* jump off the right end of the platform that comes down on the enemy in
\* tick 1036, which is the first tick of the free play.
DropRuns ==
    << <<5, FALSE, TRUE, FALSE>>, <<1, TRUE, FALSE, TRUE>>, <<21, FALSE, TRUE, FALSE>>,
       <<3, TRUE, FALSE, FALSE>>, <<1, FALSE, FALSE, TRUE>>, <<1, TRUE, FALSE, FALSE>>,
       <<10, FALSE, TRUE, FALSE>>, <<1, TRUE, FALSE, TRUE>>, <<21, FALSE, TRUE, FALSE>>,
       <<3, TRUE, FALSE, FALSE>>, <<1, FALSE, TRUE, TRUE>>, <<2, FALSE, FALSE, FALSE>>,
       <<3, FALSE, TRUE, FALSE>>, <<1, FALSE, FALSE, FALSE>>, <<1, TRUE, FALSE, TRUE>>,
       <<3, FALSE, FALSE, FALSE>>, <<21, FALSE, TRUE, FALSE>>, <<1, FALSE, FALSE, TRUE>>,
       <<4, FALSE, TRUE, FALSE>>, <<1, FALSE, FALSE, FALSE>>, <<3, TRUE, FALSE, FALSE>>,
       <<7, FALSE, TRUE, FALSE>>, <<1, FALSE, FALSE, FALSE>>, <<2, TRUE, FALSE, FALSE>>,
       <<882, FALSE, FALSE, FALSE>>, <<1, FALSE, TRUE, TRUE>>, <<14, FALSE, TRUE, FALSE>>,
       <<20, FALSE, FALSE, FALSE>> >>

DropPress(k) == /\ Follows(DropRuns, k, TRUE)
                /\ KeyPress(k)

DropRelease(k) == /\ Follows(DropRuns, k, FALSE)
                  /\ KeyRelease(k)

DropTick == /\ \A k \in KeyNames : Follows(DropRuns, k, keys[k])
            /\ TickUpTo(RunsLen(DropRuns) + MaxTicks)

DropNext ==
    \/ \E k \in KeyNames : DropPress(k)
    \/ \E k \in KeyNames : DropRelease(k)
    \/ KeyR
    \/ DropTick

DropSpec == Init /\ [][DropNext]_vars

\* Walking off to the left: left may go down at any time and stays down.
MaxPatrolTicks == 540

PatrolTick == TickUpTo(MaxPatrolTicks)

PatrolNext ==
    \/ KeyPress("left")
    \/ KeyR
    \/ PatrolTick

PatrolSpec == Init /\ [][PatrolNext]_vars

---------------------------------------------------------------------------
\* The long patrol: as PatrolSpec, for long enough that the enemy, once the
\* player has walked off the left end, turns at both ends of the ground and
\* is back at x = 520, walking left, after 3200 ticks.
MaxLongTicks == 3210

LongTick == TickUpTo(MaxLongTicks)

LongNext ==
    \/ KeyPress("left")
    \/ KeyR
    \/ LongTick

LongSpec == Init /\ [][LongNext]_vars

\* The idle run: no key is ever pressed, only the timer fires.
MaxIdleTicks == 420

IdleTick == TickUpTo(MaxIdleTicks)

IdleNext == IdleTick

IdleSpec == Init /\ [][IdleNext]_vars

\* The idle run with the timer's fairness: the event loop eventually runs a
\* callback that is due.  _update_physics is total, so the tick is enabled
\* exactly when its guard holds, and every tick moves the tick counter; the
\* condition is stated on that guard and that move.
IdleDue == pending > 0 /\ ticks < MaxIdleTicks /\ ticks' \in {0, ticks + 1}

IdleLiveSpec == IdleSpec /\ WF_ticks(IdleDue)

(* Claims *)

Overlapped == {i \in 1..Len(platforms) : _rects_overlap(BodyRect(player), PlatRect(platforms[i]))}

\* C1: no residual penetration: after every tick the player's rectangle
\* overlaps no platform rectangle (in the strict sense of _rects_overlap).
C1_NoResidualPenetration == Overlapped = {}

\* every component reset_level assigns, other than the key flags, has its
\* freshly generated value
FreshLevel ==
    /\ player = FreshPlayer
    /\ scroll_x = 0
    /\ score = 0
    /\ win = FALSE
    /\ coins = GenCoins
    /\ enemies = GenEnemies
    /\ platforms = GenPlatforms
    /\ goal = GenGoal

\* the step is a _tick: it counts one tick more, or it ended in the death reset
TickStep == ticks' = ticks + 1 \/ (last'.died /\ ticks > 0 /\ ticks' = 0)

\* the step ran reset_level: the r key, or a death tick
ResetStep == (last'.op = "reset" /\ keys' = FreshKeys) \/ (TickStep /\ last'.died)

\* C2: stomp or death.  In a tick in which, after the player's movement and
\* the enemy's advance, the player's rectangle overlaps the living enemy's,
\* either vy > 0 and bottom - 6 <= enemy top, and then the enemy dies, the
\* score grows by exactly 200, vy becomes -8 and there is no reset; or the
\* level is reset in full.
C2_StompOrDeath ==
    [][TickStep =>
        LET p == Jump(MovePlayer(player, keys, platforms), keys)
            e == enemies[1]
            er == <<e.x + e.vx, e.y, e.x + e.vx + e.w, e.y + e.h>>
        IN  (e.alive /\ _rects_overlap(BodyRect(p), er)) =>
                IF p.vy > 0 /\ p.y + p.h - Px(6) <= e.y
                THEN /\ ~enemies'[1].alive
                     /\ score' = score + 200
                     /\ player'.vy = 0 - Px(8)
                     /\ player'.x = p.x /\ player'.y = p.y
                     /\ ~last'.died /\ ticks' = ticks + 1
                ELSE last'.died /\ FreshLevel'
      ]_vars

\* a stomp has just happened
C2_Witness == last.stomped /\ ~enemies[1].alive /\ score = 200 /\ player.vy = 0 - Px(8)

\* C3: a reset is full and atomic: in the state a reset leaves behind, be
\* it the r key between two ticks or a death inside a tick, every component
\* is the freshly opened one; the rest of a death tick changes nothing.
C3_ResetIsFull == (last.op = "reset" \/ last.died) => FreshLevel

\* a death tick has just ended
C3_Witness == last.op = "tick" /\ last.died /\ FreshLevel

\* C4: a coin is picked up once.  Without a reset a dead coin stays dead;
\* the tick in which a coin dies adds exactly 100 to the score; a tick in
\* which no coin dies and no enemy is stomped leaves the score alone, however
\* the player overlaps the dead coins.
C4_CoinOnce ==
    [][/\ \A i \in 1..Len(coins) :
            /\ (~coins[i].alive /\ coins'[i].alive) => (ResetStep /\ FreshLevel')
            /\ (coins[i].alive /\ ~coins'[i].alive) => (TickStep /\ score' = score + 100)
       /\ (TickStep /\ ~last'.died /\ ~last'.stomped
             /\ \A i \in 1..Len(coins) : coins'[i].alive = coins[i].alive)
            => score' = score
      ]_vars

\* the player overlaps a coin that died in an earlier tick
C4_Witness ==
    /\ last.op = "tick" /\ last.picked = 0
    /\ \E i \in 1..Len(coins) :
            /\ ~coins[i].alive
            /\ _rect_circle_overlap(BodyRect(player), <<coins[i].x, coins[i].y, coins[i].r>>)

\* C5: velocity bounds: -4 <= vx <= 4 and -12 <= vy <= 12 in every state.
C5_VelocityBounds ==
    /\ 0 - Px(4) <= player.vx /\ player.vx <= Px(4)
    /\ 0 - Px(12) <= player.vy /\ player.vy <= Px(12)

\* the horizontal clamp is reached in the tick of a jump
C5_Witness == player.vx = Px(4) /\ player.vy = 0 - Px(10)

\* C6: scroll bounds: 0 <= scroll_x <= 1600 - 800, wherever the player is.
C6_ScrollBounds == 0 <= scroll_x /\ scroll_x <= Px(800)

\* the player is right of the level's end and the camera is at its bound
C6_Witness == player.x > Px(1600) /\ scroll_x = Px(800)

\* C7: win is sticky.  A tick whose goal check finds the player on the goal
\* rectangle (x 1400..1412, y 160..280) sets win; nothing but a reset clears it.
C7_WinSticky ==
    [][/\ (TickStep /\ ~last'.died
             /\ _rects_overlap(BodyRect(player'), <<Px(1400), Px(160), Px(1412), Px(280)>>))
            => win'
       /\ (win /\ ~win') => (ResetStep /\ FreshLevel')
      ]_vars

\* win is still set after the player has left the goal
C7_Witness ==
    /\ win /\ last.op = "tick"
    /\ ~_rects_overlap(BodyRect(player), GoalRect(goal))

\* C8: the enemy's first reversal.  As long as the enemy lives (no overlap
\* has killed it or reset the level), it walks left from 520 one pixel a
\* tick, and turns in the 534th tick after generation, at x = -14.
C8_EnemyReversal ==
    enemies[1].alive =>
        /\ ticks < 534 => (enemies[1].vx = 0 - Px(1) /\ enemies[1].x = Px(520 - ticks))
        /\ ticks = 534 => (enemies[1].vx = Px(1) /\ enemies[1].x = 0 - Px(14))
        /\ ticks > 534 => enemies[1].vx = Px(1)

\* the tick of the reversal
C8_Witness == ticks = 534 /\ enemies[1].alive /\ enemies[1].vx = Px(1) /\ enemies[1].x = 0 - Px(14)

\* C9: level generation does not depend on history: whatever the state
\* before, a step that runs reset_level leaves the state of a freshly opened
\* demo, key flags included; so a second reset in a row changes nothing.
C9_ResetDeterministic ==
    [][ResetStep =>
            /\ <<player', scroll_x', platforms', coins', enemies', goal', score', win', keys'>>
                 = <<FreshPlayer, 0, GenPlatforms, GenCoins, GenEnemies, GenGoal, 0, FALSE, FreshKeys>>
            /\ (last.op = "reset" /\ last'.op = "reset" /\ keys = FreshKeys) =>
                    <<player', scroll_x', platforms', coins', enemies', goal', score', win'>>
                     = <<player, scroll_x, platforms, coins, enemies, goal, score, win>>
      ]_vars

\* the r key has just reset the level
C9_Witness == last.op = "reset" /\ ticks = 0 /\ FreshLevel /\ keys = FreshKeys

NumDead(s) == Cardinality({i \in 1..Len(s) : ~s[i].alive})

\* C10: score accounting: score = 100 * dead coins + 200 * dead enemies,
\* at most 1100, and 0 right after a reset.
C10_ScoreAccounting ==
    /\ score = 100 * NumDead(coins) + 200 * NumDead(enemies)
    /\ score <= 1100
    /\ (last.op = "reset" \/ last.died) => score = 0

\* a coin and a stomp have both been counted
C10_Witness == score = 300 /\ NumDead(coins) = 1 /\ NumDead(enemies) = 1

\* C11: jump only when grounded.  In a tick that does not end in a death,
\* vy is set to -10 exactly when the jump key is held and the grounded flag
\* is true after the vertical collision pass, and grounded is then false at
\* the end of the tick; otherwise the jump step leaves vy and the grounded
\* flag as the vertical pass left them (a stomp alone may still set vy).
C11_JumpOnlyGrounded ==
    [][(TickStep /\ ~last'.died) =>
        LET m == MovePlayer(player, keys, platforms)
        IN  IF keys.jump /\ m.on_ground
            THEN player'.vy = 0 - Px(10) /\ ~player'.on_ground
            ELSE /\ player'.vy # 0 - Px(10)
                 /\ player'.vy = m.vy \/ last'.stomped
                 /\ player'.on_ground = m.on_ground
      ]_vars

\* the jump key is still held in the tick after the jump: the player is
\* airborne and vy has only taken gravity
C11_Witness ==
    /\ last.op = "tick" /\ keys.jump /\ ~player.on_ground
    /\ player.vy = 0 - Px(10) + GRAVITY

\* C12: dead enemies are inert.  From a state in which an enemy is dead,
\* every step other than a reset leaves that enemy's record (x, vx, alive)
\* as it is; a tick neither resets the level nor stomps, the score changes
\* only by the coins taken and vy is what movement and jump made it, also
\* when the player overlaps the dead enemy's rectangle.
C12_DeadEnemiesInert ==
    [][\A i \in 1..Len(enemies) :
          ~enemies[i].alive =>
              \/ ResetStep /\ FreshLevel'
              \/ /\ enemies'[i] = enemies[i]
                 /\ TickStep =>
                      /\ ~last'.died /\ ~last'.stomped
                      /\ score' = score + 100 * last'.picked
                      /\ player'.vy = Jump(MovePlayer(player, keys, platforms), keys).vy
      ]_vars

\* a tick has ended with the player overlapping the enemy stomped earlier
C12_Witness ==
    /\ last.op = "tick" /\ ~last.stomped /\ ~last.died
    /\ ~enemies[1].alive
    /\ _rects_overlap(BodyRect(player), BodyRect(enemies[1]))

\* The step in the order the specification lists: movement and collision,
\* jump, camera, the enemy step for every living enemy, and only then the
\* interactions (coins, stomp or death, goal).
RECURSIVE MoveFrom(_, _)
MoveFrom(es, i) ==
    IF i > Len(es) THEN es
    ELSE MoveFrom([es EXCEPT ![i] = IF @.alive THEN EnemyStep(@, platforms) ELSE @], i + 1)

MovedEnemies == MoveFrom(enemies, 1)

\* the stomp-or-death pass over enemies that have already moved
RECURSIVE Interact(_, _, _, _)
Interact(acc, p, pr, i) ==
    IF acc.died \/ i > Len(acc.enemies) THEN acc
    ELSE IF ~acc.enemies[i].alive \/ ~_rects_overlap(pr, BodyRect(acc.enemies[i]))
         THEN Interact(acc, p, pr, i + 1)
         ELSE IF acc.vy > 0 /\ p.y + p.h - Px(6) <= acc.enemies[i].y
              THEN Interact([acc EXCEPT !.enemies[i].alive = FALSE, !.score = @ + 200,
                                        !.vy = 0 - Px(8)], p, pr, i + 1)
              ELSE [acc EXCEPT !.died = TRUE]

SpecOrderStep ==
    LET p1 == Jump(MovePlayer(player, keys, platforms), keys)
        sx == Camera(p1.x, scroll_x)
        es == MovedEnemies
        pr == BodyRect(p1)
        taken == {i \in 1..Len(coins) :
                     coins[i].alive /\ _rect_circle_overlap(pr, <<coins[i].x, coins[i].y, coins[i].r>>)}
        cs == [i \in 1..Len(coins) |-> IF i \in taken THEN [coins[i] EXCEPT !.alive = FALSE] ELSE coins[i]]
        acc == Interact([enemies |-> es, score |-> score + 100 * Cardinality(taken),
                         vy |-> p1.vy, died |-> FALSE], p1, pr, 1)
    IN  IF acc.died
        THEN [keys |-> FreshKeys, scroll_x |-> 0, player |-> FreshPlayer, platforms |-> GenPlatforms,
              coins |-> GenCoins, enemies |-> GenEnemies, goal |-> GenGoal, score |-> 0, win |-> FALSE]
        ELSE [keys |-> keys, scroll_x |-> sx, player |-> [p1 EXCEPT !.vy = acc.vy],
              platforms |-> platforms, coins |-> cs, enemies |-> acc.enemies, goal |-> goal,
              score |-> acc.score,
              win |-> win \/ _rects_overlap(pr, GoalRect(goal))]

StateFields == {"keys", "scroll_x", "player", "platforms", "coins", "enemies", "goal", "score", "win"}

\* C13: fixed step order.  In every reachable state, with the keys held
\* there, the state the code's tick produces equals the state produced by
\* the steps in the specification's order; taking the coins before the
\* enemy step, as the code does, makes no difference.
C13_StepOrder ==
    \A code \in {_update_physics} : \A spec \in {SpecOrderStep} :
        \A f \in StateFields : code[f] = spec[f]

\* the coming tick takes a coin while the living enemy walks
C13_Witness ==
    /\ enemies[1].alive
    /\ NumPicked(coins, BodyRect(Jump(MovePlayer(player, keys, platforms), keys))) > 0

\* C14: the win flag does not influence the simulation.  Whatever the value
\* of win, the player, the coins, the enemies, the score and the scroll
\* offset a tick leaves are those the step computes for win = FALSE and for
\* win = TRUE alike; ticks and key events go on while win is set.
C14_WinNoInfluence ==
    [][TickStep =>
          \A w \in BOOLEAN : \A st \in {PhysicsGiven(w)} :
              <<player', coins', enemies', score', scroll_x'>>
                = <<st.player, st.coins, st.enemies, st.score, st.scroll_x>>
      ]_vars

\* after the goal was reached, left was pressed and a tick has slowed the player
C14_Witness ==
    /\ win /\ keys.left /\ last.op = "tick"
    /\ ticks > DemoLen /\ player.vx < Px(3)

\* C15: the camera dead zone.  With W = 800 the offset a tick leaves is
\* computed from the player's x and the previous offset alone: x - 480 if
\* x - scroll > 480, x - 240 if x - scroll < 240, else unchanged, then
\* clamped to 0..800.  So after a tick without a reset the on-screen x is
\* within 240..480, or the offset is at 0 or at 800.
C15_CameraDeadZone ==
    [][(TickStep /\ ~last'.died) =>
          LET x == player'.x
              c == x - scroll_x
              raw == IF c > Px(480) THEN x - Px(480)
                     ELSE IF c < Px(240) THEN x - Px(240) ELSE scroll_x
              new == IF raw < 0 THEN 0 ELSE IF raw > Px(800) THEN Px(800) ELSE raw
          IN  /\ scroll_x' = new
              /\ \/ Px(240) <= x - scroll_x' /\ x - scroll_x' <= Px(480)
                 \/ scroll_x' = 0
                 \/ scroll_x' = Px(800)
      ]_vars

\* the camera has retreated: the player walks left at the left edge of the
\* dead zone with the offset off its bounds
C15_Witness ==
    /\ last.op = "tick" /\ keys.left /\ player.vx < 0
    /\ scroll_x > 0 /\ scroll_x < Px(800)
    /\ player.x - scroll_x = Px(240)

\* the step is a key press or release: one flag flips, nothing else changes
KeyEvent ==
    /\ \E k \in KeyNames : keys' = [keys EXCEPT ![k] = ~keys[k]]
    /\ UNCHANGED <<player, scroll_x, platforms, coins, enemies, goal, score, win, ticks>>

\* C16: the key flags belong to the input side: they change only by a key
\* press or a key release; neither a tick nor a reset (the r key or a death)
\* changes them, so a key held across a reset is still held afterwards.
C16_KeysOwnedByInput == [][keys' # keys => KeyEvent]_vars

C18_OneTickPending == pending <= 1 /\ (window => pending = 1)

\* the r key was handled between two ticks, with a key held again since
C18_Witness == window /\ last.op = "reset" /\ keys.jump /\ pending = 1

\* C19: no runaway values.  Velocities and scroll offset are clamped, and
\* the positions of the player and of the enemies stay within a fixed box
\* around the level (the level is 1600 wide and the window 480 high; the
\* box allows a whole level width beyond it on every side).
C19_NoRunaway ==
    /\ 0 - MAX_VX <= player.vx /\ player.vx <= MAX_VX
    /\ 0 - MAX_VY <= player.vy /\ player.vy <= MAX_VY
    /\ 0 <= scroll_x /\ scroll_x <= LEVEL_W - W
    /\ 0 - LEVEL_W <= player.x /\ player.x <= 2 * LEVEL_W
    /\ 0 - LEVEL_W <= player.y /\ player.y <= 2 * LEVEL_W
    /\ \A i \in 1..Len(enemies) :
          0 - LEVEL_W <= enemies[i].x /\ enemies[i].x <= 2 * LEVEL_W

\* C20: vertical snap.  Whenever the vertical pass of the coming tick
\* resolves the player along y, the player ends the pass snapped to a
\* platform it ran into: moving down, its bottom is on that platform's top,
\* vy = 0 and grounded; moving up, its top is at that platform's bottom and
\* vy = 0.  Also with two or more platforms overlapped in the same pass.
C20_VerticalSnap ==
    LET p1 == [player EXCEPT !.vx = StepVx(player.vx, keys), !.vy = StepVy(player.vy)]
        p2 == _move_and_collide(p1, p1.vx, 0, platforms)
        moved == [p2 EXCEPT !.y = @ + p2.vy]
        p3 == _move_and_collide(p2, 0, p2.vy, platforms)
        hit == {i \in 1..Len(platforms) : _rects_overlap(BodyRect(moved), PlatRect(platforms[i]))}
    IN  (pending > 0 /\ p3.y # moved.y) =>
            /\ p2.vy > 0 => /\ \E i \in hit : p3.y + p3.h = platforms[i][2]
                            /\ p3.vy = 0 /\ p3.on_ground
            /\ p2.vy < 0 => /\ \E i \in hit : p3.y = platforms[i][2] + platforms[i][4]
                            /\ p3.vy = 0

\* the platforms a pass, whose unresolved rectangle is pr, resolves along x:
\* those it overlaps with the smaller penetration along x
AlongX(pr) ==
    {i \in 1..Len(platforms) :
        LET r == PlatRect(platforms[i])
        IN  /\ _rects_overlap(pr, r)
            /\ Abs(Min(pr[3], r[3]) - Max(pr[1], r[1])) < Abs(Min(pr[4], r[4]) - Max(pr[2], r[2]))}

\* C21: shallow-axis resolution along x.  In the coming tick, whenever the
\* horizontal pass or the vertical pass (dx = 0) resolves the player along x
\* against a platform, the player ends the pass with vx = 0 and no longer
\* overlapping that platform.
C21_ShallowAxisX ==
    LET p1 == [player EXCEPT !.vx = StepVx(player.vx, keys), !.vy = StepVy(player.vy)]
        h0 == [p1 EXCEPT !.x = @ + p1.vx]
        p2 == _move_and_collide(p1, p1.vx, 0, platforms)
        v0 == [p2 EXCEPT !.y = @ + p2.vy]
        p3 == _move_and_collide(p2, 0, p2.vy, platforms)
    IN  pending > 0 =>
            /\ \A i \in AlongX(BodyRect(h0)) :
                  p2.vx = 0 /\ ~_rects_overlap(BodyRect(p2), PlatRect(platforms[i]))
            /\ \A i \in AlongX(BodyRect(v0)) :
                  p3.vx = 0 /\ ~_rects_overlap(BodyRect(p3), PlatRect(platforms[i]))

\* the platforms a pass, whose unresolved rectangle is pr, resolves along y
AlongY(pr) ==
    {i \in 1..Len(platforms) :
        LET r == PlatRect(platforms[i])
        IN  /\ _rects_overlap(pr, r)
            /\ Abs(Min(pr[3], r[3]) - Max(pr[1], r[1])) >= Abs(Min(pr[4], r[4]) - Max(pr[2], r[2]))}

\* C22: the grounded flag.  After a tick without a reset grounded is true
\* only if the vertical pass moved the player down and resolved it along y
\* against a platform, and no jump was triggered (so the jump key is up);
\* if the vertical pass overlaps no platform, grounded is false; the
\* horizontal pass never leaves grounded true.
C22_GroundedFlag ==
    [][(TickStep /\ ~last'.died) =>
          LET p1 == [player EXCEPT !.vx = StepVx(player.vx, keys), !.vy = StepVy(player.vy)]
              p2 == _move_and_collide(p1, p1.vx, 0, platforms)
              v0 == BodyRect([p2 EXCEPT !.y = @ + p2.vy])
          IN  /\ player'.on_ground => (p2.vy > 0 /\ AlongY(v0) # {} /\ ~keys.jump)
              /\ (\A i \in 1..Len(platforms) : ~_rects_overlap(v0, PlatRect(platforms[i])))
                    => ~player'.on_ground
              /\ ~p2.on_ground
      ]_vars

\* the player was grounded and the tick just run, in which it touched the
\* ground without overlapping it, has cleared the flag
C22_Witness ==
    /\ last.op = "tick" /\ ~player.on_ground /\ ~keys.jump
    /\ player.y + player.h = GROUND_Y /\ player.vy = GRAVITY

\* (a) at the projected position nx the enemy's rectangle overlaps a platform
\* whose top is more than 2 above the enemy's bottom edge
SideHit(e, nx) ==
    \E i \in 1..Len(platforms) :
        /\ _rects_overlap(<<nx, e.y, nx + e.w, e.y + e.h>>, PlatRect(platforms[i]))
        /\ platforms[i][2] + Px(2) < e.y + e.h

\* (b) at nx no platform lies directly beneath the enemy's horizontal centre
\* (compared on the doubled scale): none carries the enemy's bottom edge there
NoneBeneath(e, nx) ==
    ~\E i \in 1..Len(platforms) :
        /\ 2 * platforms[i][1] <= 2 * nx + e.w
        /\ 2 * nx + e.w <= 2 * (platforms[i][1] + platforms[i][3])
        /\ platforms[i][2] = e.y + e.h

\* C23: enemy step and delayed reversal.  In a tick a living enemy's x
\* changes by exactly the vx it had before the tick; its vx is then negated
\* if and only if (a) or (b) holds at the projected position x + vx, and is
\* otherwise kept; a reversal is never followed by a reversal in the next
\* tick.
C23_EnemyStep ==
    [][(TickStep /\ ~last'.died) =>
          \A i \in 1..Len(enemies) :
              enemies[i].alive =>
                  LET e == enemies[i]
                      n == enemies'[i]
                      turn == SideHit(n, n.x + e.vx) \/ NoneBeneath(n, n.x + e.vx)
                  IN  /\ n.x = e.x + e.vx
                      /\ n.y = e.y
                      /\ n.vx = IF turn THEN 0 - e.vx ELSE e.vx
                      /\ turn => ~(SideHit(n, n.x + 2 * n.vx) \/ NoneBeneath(n, n.x + 2 * n.vx))
      ]_vars

\* the tick after the reversal at the right end of the ground: the enemy
\* has moved left by one
C23_Witness ==
    /\ enemies[1].alive /\ enemies[1].vx = 0 - Px(1)
    /\ enemies[1].x = Px(1585) /\ ticks > 534

\* C24: a downward approach is always a stomp.  If the player was entirely
\* above a living enemy's top edge before the tick, has vy > 0 at the
\* interaction check of the tick and overlaps the moved enemy there, then
\* the enemy is killed and the level is not reset.
C24_DownwardStomp ==
    [][TickStep =>
          LET p == Jump(MovePlayer(player, keys, platforms), keys)
              e == enemies[1]
              er == <<e.x + e.vx, e.y, e.x + e.vx + e.w, e.y + e.h>>
          IN  (/\ e.alive
               /\ player.y + player.h <= e.y
               /\ p.vy > 0
               /\ _rects_overlap(BodyRect(p), er))
                  => (~last'.died /\ ~enemies'[1].alive)
      ]_vars

\* the player as the interaction pass of the coming tick sees it overlaps the
\* living enemy after the enemy's advance
MeetsEnemy(p) ==
    LET e == enemies[1]
    IN  /\ e.alive
        /\ _rects_overlap(BodyRect(p), <<e.x + e.vx, e.y, e.x + e.vx + e.w, e.y + e.h>>)

\* C25: grounded implies no vertical motion.  At the end of every tick
\* on_ground implies vy = 0; and a tick in which the player is grounded at
\* the interaction check and overlaps the living enemy there never stomps:
\* it ends in a level reset.
C25_GroundedNoStomp ==
    [][TickStep =>
          LET p == Jump(MovePlayer(player, keys, platforms), keys)
          IN  /\ player'.on_ground => player'.vy = 0
              /\ p.on_ground => p.vy = 0
              /\ (p.on_ground /\ MeetsEnemy(p)) => (last'.died /\ ~last'.stomped /\ FreshLevel')
      ]_vars

\* the coming tick brings a grounded player and the living enemy together
C25_Witness ==
    /\ pending > 0
    /\ player.on_ground
    /\ \E p \in {Jump(MovePlayer(player, keys, platforms), keys)} :
           p.on_ground /\ MeetsEnemy(p)

\* C26: the enemy's patrol on the reference level.  In every reachable state
\* a living enemy has vx = -1 or +1, y = 340, a whole number of pixels as x
\* with -14 <= x <= 1586 (its centre over the ground strip), and its
\* rectangle overlaps no platform.
C26_EnemyPatrol ==
    \A i \in 1..Len(enemies) :
        enemies[i].alive =>
            /\ enemies[i].vx \in {0 - Px(1), Px(1)}
            /\ enemies[i].y = Px(340)
            /\ enemies[i].x % S = 0
            /\ 0 - Px(14) <= enemies[i].x /\ enemies[i].x <= Px(1586)
            /\ 0 <= enemies[i].x + enemies[i].w \div 2
            /\ enemies[i].x + enemies[i].w \div 2 <= LEVEL_W
            /\ \A j \in 1..Len(platforms) :
                   ~_rects_overlap(BodyRect(enemies[i]), PlatRect(platforms[j]))

\* the enemy has come back from the left end and stands at the right end
C26_Witness ==
    /\ enemies[1].alive
    /\ enemies[1].x = Px(1586)
    /\ enemies[1].vx = 0 - Px(1)
    /\ ticks = 2134

\* C27: the idle run is periodic.  With no key ever pressed the player comes
\* to rest on the ground at x = 80, y = 328 and stays there, the enemy walks
\* left from 520 one pixel a tick without reversing, the 417th tick (enemy at
\* x = 103) and no earlier one ends in the death reset, the state after it
\* is the fresh state, the enemy never reaches the left end of the ground,
\* and the reset recurs forever.
C27_IdlePeriodic ==
    /\ [][TickStep =>
             /\ keys' = FreshKeys
             /\ player'.x = Px(80)
             /\ ticks' >= 5 => (/\ player'.y = Px(328) /\ player'.on_ground
                                /\ player'.vy = 0 /\ player'.vx = 0)
             /\ enemies'[1].alive
             /\ enemies'[1].vx = 0 - Px(1)
             /\ enemies'[1].x = Px(520 - ticks')
             /\ enemies'[1].x > 0 - Px(14)
             /\ last'.died <=> ticks = 416
             /\ last'.died => (ticks' = 0 /\ FreshLevel' /\ enemies[1].x - Px(1) = Px(103))
       ]_vars
    /\ []<>(last.died /\ ticks = 0)

\* the state right after the death reset of the idle run
C27_Witness == last.op = "tick" /\ last.died /\ ticks = 0 /\ FreshLevel /\ keys = FreshKeys

\* C28: resting on the ground is stable.  A tick that starts with the player
\* grounded on the ground strip (bottom edge at 360) and the jump key up,
\* that is not a reset, and that leaves the player's rectangle horizontally
\* within the strip, ends with the player grounded and its bottom edge at
\* 360 again, seams between ground blocks included.
C28_RestStable ==
    [][(/\ TickStep /\ ~last'.died
        /\ player.on_ground /\ player.y + player.h = GROUND_Y
        /\ ~keys.jump
        /\ 0 <= player'.x /\ player'.x + player'.w <= LEVEL_W)
          => (player'.on_ground /\ player'.y + player'.h = GROUND_Y)
      ]_vars

====
